---- MODULE Spec2Model ----
(***************************************************************************)
(* Model of src/server.py: an OpenAI-compatible HTTP front for one locally *)
(* loaded text-generation pipeline.                                        *)
(*                                                                         *)
(* The module body of server.py loads tokenizer, model and pipeline once   *)
(* (lines 143-158) and only then registers the routes (lines 161-285).     *)
(* Every handler is an async def without an await, so one handler runs *)
(* from request to response as one atomic step of the event loop.          *)
(*                                                                         *)
(* Data representation                                                     *)
(*   str            a sequence of one-character strings, "" is << >>       *)
(*   Optional[T]    << >> for None, << v >> for a value v                  *)
(*   List[T]        a sequence                                             *)
(*   JSON body part a record [kind, val], kind one of "null", "list",      *)
(*                  "str", "num", "object", "absent"                       *)
(***************************************************************************)
EXTENDS Integers, Sequences, FiniteSets, TLC

VARIABLES
    startup,          \* "importing" | "serving" | "aborted"
    handles,          \* the module globals tokenizer, model, pipeline
    request,          \* the request handled last: [endpoint, body, ...]
    outcome,          \* what the external pipeline did when (if) it was called
    pipeline_calls,   \* the pipeline(...) calls made while handling request
    raised,           \* the exception that left the handler: its class
    response          \* the HTTP response sent for request

vars == <<startup, handles, request, outcome, pipeline_calls, raised, response>>

----------------------------------------------------------------------------
(* Bounds of the model *)

\* largest value of the request field n that is tried
MaxN == 2
\* largest value of max_tokens / max_new_tokens that is tried
MaxTokens == 1
\* longest continuation the pipeline generates, in characters
MaxGen == 1

(* Program constants *)

\* tokenizer(..., truncation=True, max_length=512)
max_length == 512
MODEL_DIR == "model"

----------------------------------------------------------------------------
(* Optional values and strings *)

None == << >>
Some(v) == << v >>
IsNone(o) == Len(o) = 0
Val(o) == o[1]

Min(a, b) == IF a <= b THEN a ELSE b

\* s[k:] of Python, for 0 <= k
Slice(s, k) == SubSeq(s, k + 1, Len(s))

\* the strings "g" * k for k in 0..m: what the pipeline may append to a prompt
RECURSIVE Repeat(_, _)
Repeat(c, k) == IF k = 0 THEN << >> ELSE <<c>> \o Repeat(c, k - 1)

RECURSIVE SeqsOfLen(_, _)
SeqsOfLen(S, k) ==
    IF k = 0 THEN { << >> }
    ELSE { <<x>> \o t : x \in S, t \in SeqsOfLen(S, k - 1) }

----------------------------------------------------------------------------
(* Startup: lines 142-158 *)

Unset == [tokenizer |-> "unset", model |-> "unset", pipeline |-> "unset"]

\* The globals after the try block, when the step failed raised
\* ("none": no step raised). Assignments before the raising step are kept.
load_globals(failed) ==
    [tokenizer |-> IF failed = "tokenizer" THEN "unset" ELSE "loaded",
     model     |-> IF failed \in {"tokenizer", "model"} THEN "unset" ELSE "loaded",
     pipeline  |-> IF failed = "none" THEN "loaded" ELSE "unset"]

\* faulty variant: the except clause logs and does not re-raise
load_result_swallow(failed) == "serving"

\* except Exception: LOG.exception(...); raise  -- the import of the module
\* fails, the routes below are never registered and the process never serves
load_result(failed) == IF failed = "none" THEN "serving" ELSE "aborted"

LoadSteps == {"none", "tokenizer", "model", "pipeline"}

NoRequest == [endpoint |-> "none", body |-> << >>, tool_name |-> ""]
NoOutcome == [raised |-> FALSE, outputs |-> << >>]
Raises == [raised |-> TRUE, outputs |-> << >>]
NoResponse == [status |-> 0, content |-> [object |-> "none"]]

Init ==
    /\ startup = "importing"
    /\ handles = Unset
    /\ request = NoRequest
    /\ outcome = NoOutcome
    /\ pipeline_calls = << >>
    /\ raised = "none"
    /\ response = NoResponse

LoadModel ==
    /\ startup = "importing"
    /\ \E failed \in LoadSteps :
         /\ handles' = load_globals(failed)
         /\ startup' = load_result(failed)
    /\ UNCHANGED <<request, outcome, pipeline_calls, raised, response>>

----------------------------------------------------------------------------
(* GET /health: lines 161-163 *)

health == [status |-> 200, content |-> [object |-> "health", status |-> "ok"]]

\* The event loop is free to run a handler: the module was imported and no
\* handler is running.
Idle == startup = "serving" /\ request.endpoint = "none"

Health ==
    /\ Idle
    /\ request' = [endpoint |-> "health", body |-> << >>, tool_name |-> ""]
    /\ outcome' = NoOutcome
    /\ pipeline_calls' = << >>
    /\ raised' = "none"
    /\ response' = health
    /\ UNCHANGED <<startup, handles>>

\* The response is on the wire; the locals of the handler run are gone.
Sent ==
    /\ request.endpoint # "none"
    /\ request' = NoRequest
    /\ outcome' = NoOutcome
    /\ pipeline_calls' = << >>
    /\ raised' = "none"
    /\ response' = NoResponse
    /\ UNCHANGED <<startup, handles>>

----------------------------------------------------------------------------
(* Exceptions and the three exception handlers: lines 95-139 *)

NoExc == [class |-> "none", status_code |-> 0, detail |-> ""]
HTTPException(status_code, detail) ==
    [class |-> "HTTPException", status_code |-> status_code, detail |-> detail]
RequestValidationError(errors) ==
    [class |-> "RequestValidationError", status_code |-> 0, detail |-> errors]
\* any other exception class (TypeError, ValueError, ...)
PyException(name) == [class |-> "Exception", status_code |-> 0, detail |-> name]

http_exception_handler(exc) ==
    [status  |-> exc.status_code,
     content |-> [object |-> "error",
                  error  |-> [message |-> exc.detail,
                              type    |-> "invalid_request_error",
                              param   |-> None,
                              code    |-> None]]]

validation_exception_handler(exc) ==
    [status  |-> 422,
     content |-> [object |-> "error",
                  error  |-> [message |-> "Validation failed",
                              type    |-> "validation_error",
                              param   |-> None,
                              code    |-> None,
                              details |-> exc.detail]]]

generic_exception_handler(exc) ==
    [status  |-> 500,
     content |-> [object |-> "error",
                  error  |-> [message |-> "Internal server error",
                              type    |-> "server_error",
                              param   |-> None,
                              code    |-> None]]]

\* The framework picks the handler registered for the class of the exception.
exception_handler(exc) ==
    CASE exc.class = "HTTPException" -> http_exception_handler(exc)
      [] exc.class = "RequestValidationError" -> validation_exception_handler(exc)
      [] OTHER -> generic_exception_handler(exc)

\* What a handler run leaves behind: the exception that escaped it (or NoExc),
\* the pipeline calls it made and, when nothing escaped, the value it returned.
Raise(exc, calls) == [exc |-> exc, calls |-> calls, response |-> NoResponse]
Return(content, calls) ==
    [exc |-> NoExc, calls |-> calls, response |-> [status |-> 200, content |-> content]]

\* The response the client gets for a handler run.
Respond(run) == IF run.exc.class = "none" THEN run.response ELSE exception_handler(run.exc)

----------------------------------------------------------------------------
(* The external library: tokenizer and generation pipeline *)

\* tokenizer(text, truncation=True, max_length=512).input_ids, one id per
\* character of the text, cut at max_length
tokenizer(text) == SubSeq(text, 1, Min(Len(text), max_length))

\* The continuations the pipeline may generate under max_new_tokens = limit
\* (an Optional[int]): at most limit tokens, any length when it is None.
Continuations(limit) ==
    { Repeat("g", k) : k \in 0..(IF IsNone(limit) THEN MaxGen ELSE Min(MaxGen, Val(limit))) }

\* pipeline(prompt, ...): it raises (on a None prompt always, on any other
\* input possibly), or it returns num_return_sequences outputs, each the
\* prompt followed by a continuation.
pipeline(call) ==
    { Raises }
    \cup
    (IF IsNone(call.prompt) THEN {}
     ELSE { [raised  |-> FALSE,
             outputs |-> [i \in 1..call.num_return_sequences |->
                            [generated_text |-> Val(call.prompt) \o cs[i]]]] :
            cs \in SeqsOfLen(Continuations(call.max_new_tokens), call.num_return_sequences) })

----------------------------------------------------------------------------
(* Code shared by completions and chat_completions *)

\* faulty variant: req.max_new_tokens or req.max_tokens
max_tokens_to_use_or(req) ==
    IF ~IsNone(req.max_new_tokens) /\ Val(req.max_new_tokens) # 0
    THEN req.max_new_tokens ELSE req.max_tokens

\* req.max_new_tokens if req.max_new_tokens is not None else req.max_tokens
max_tokens_to_use(req) ==
    IF ~IsNone(req.max_new_tokens) THEN req.max_new_tokens ELSE req.max_tokens

\* The keyword arguments of pipeline(...). prompt is an Optional[str].
\* Evaluating req.temperature > 0 raises TypeError when temperature is None.
generation_call(prompt, req) ==
    [prompt               |-> prompt,
     max_new_tokens       |-> max_tokens_to_use(req),
     do_sample            |-> Val(req.temperature) > 0,
     temperature          |-> req.temperature,
     top_p                |-> req.top_p,
     num_return_sequences |-> req.n]

RECURSIVE completion_tokens(_, _)
completion_tokens(prompt, outputs) ==
    IF Len(outputs) = 0 THEN 0
    ELSE Len(tokenizer(Slice(Head(outputs).generated_text, Len(prompt))))
         + completion_tokens(prompt, Tail(outputs))

\* faulty variant: the final usage["total_tokens"] = ... is missing
count_usage_no_total(prompt, outputs) ==
    [prompt_tokens     |-> Len(tokenizer(prompt)),
     completion_tokens |-> completion_tokens(prompt, outputs),
     total_tokens      |-> 0]

\* usage = {...}; for out in outputs: usage["completion_tokens"] += ...;
\* usage["total_tokens"] = usage["prompt_tokens"] + usage["completion_tokens"]
count_usage(prompt, outputs) ==
    LET p == Len(tokenizer(prompt))
        c == completion_tokens(prompt, outputs)
    IN [prompt_tokens |-> p, completion_tokens |-> c, total_tokens |-> p + c]

\* req.model or MODEL_DIR
model_name(req) ==
    IF IsNone(req.model) \/ Val(req.model) = "" THEN MODEL_DIR ELSE Val(req.model)

----------------------------------------------------------------------------
(* POST /v1/completions: lines 166-206 *)

JNull == [kind |-> "null", val |-> << >>]
JAbsent == [kind |-> "absent", val |-> << >>]
JList(l) == [kind |-> "list", val |-> l]
JStr(s) == [kind |-> "str", val |-> s]

\* prompt: Optional[List[str]] = None
prompt_valid(body) == body.prompt.kind \in {"absent", "null", "list"}

\* The CompletionRequest built from a body that passed validation.
CompletionRequest(body) ==
    [body EXCEPT !.prompt = IF body.prompt.kind = "list" THEN Some(body.prompt.val) ELSE None]

\* faulty variant: the first prompt must not be the empty string either
prompt_missing_or_blank(req) ==
    \/ IsNone(req.prompt)
    \/ Len(Val(req.prompt)) = 0
    \/ Len(Val(req.prompt)[1]) = 0

\* not req.prompt: None or the empty list
prompt_missing(req) == IsNone(req.prompt) \/ Len(Val(req.prompt)) = 0

\* faulty variant: the wrong status code
prompt_required_404 == HTTPException(404, "prompt is required")

prompt_required == HTTPException(400, "prompt is required")

\* faulty variant: only the first output becomes a choice
text_choices_first(prompt, outputs) ==
    [i \in 1..Min(1, Len(outputs)) |->
        [text          |-> Slice(outputs[i].generated_text, Len(prompt)),
         index         |-> i - 1,
         finish_reason |-> "stop"]]

\* for i, out in enumerate(outputs): choices.append(TextChoice(...))
text_choices(prompt, outputs) ==
    [i \in 1..Len(outputs) |->
        [text          |-> Slice(outputs[i].generated_text, Len(prompt)),
         index         |-> i - 1,
         finish_reason |-> "stop"]]

\* The handler, given what the pipeline does if it is called.
completions(req, oc) ==
    IF prompt_missing(req) THEN Raise(prompt_required, << >>)
    ELSE LET prompt == Val(req.prompt)[1] IN
         IF IsNone(req.temperature)
         THEN Raise(HTTPException(500, "Text generation failed"), << >>)
         ELSE LET call == generation_call(Some(prompt), req) IN
              IF oc.raised
              THEN Raise(HTTPException(500, "Text generation failed"), <<call>>)
              ELSE Return([object  |-> "text_completion",
                           model   |-> model_name(req),
                           choices |-> text_choices(prompt, oc.outputs),
                           usage   |-> count_usage(prompt, oc.outputs)],
                          <<call>>)

\* Request parsing, then the handler.
completions_endpoint(body, oc) ==
    IF ~prompt_valid(body)
    THEN Raise(RequestValidationError("prompt: not a valid list"), << >>)
    ELSE completions(CompletionRequest(body), oc)

\* What the pipeline can do during a handler run: the handler run's calls do not
\* depend on the pipeline's answer, so they are read off a trial run.
Outcomes(trial) == IF Len(trial.calls) = 0 THEN {NoOutcome} ELSE pipeline(trial.calls[1])

\* The request fields, as parsed. Of n only the values the pipeline is known
\* to accept (n >= 1) are tried; the fields stop and function_call are read
\* by no handler and are left out.
OptInts == {None} \cup { Some(k) : k \in 0..MaxTokens }
Temperatures == {None, Some(0), Some(1)}
TopPs == {Some(0), Some(1)}
Ns == 1..MaxN
ModelNames == {None, Some("m")}

PromptBodies ==
    { JAbsent, JNull, JStr(<<"p">>),
      JList(<< >>), JList(<< << >> >>), JList(<< <<"p">> >>),
      JList(<< <<"p", "p">>, <<"p">> >>) }

CompletionBodies ==
    [model : ModelNames, prompt : PromptBodies,
     max_tokens : OptInts \cup {Some(16)}, max_new_tokens : OptInts,
     temperature : Temperatures, top_p : TopPs, n : Ns, stream : BOOLEAN]

Serve(endpoint, body, oc, run) ==
    /\ request' = [endpoint |-> endpoint, body |-> body, tool_name |-> ""]
    /\ outcome' = oc
    /\ pipeline_calls' = run.calls
    /\ raised' = run.exc.class
    /\ response' = Respond(run)
    /\ UNCHANGED <<startup, handles>>

PostCompletions ==
    /\ Idle
    /\ \E body \in CompletionBodies :
         \E oc \in Outcomes(completions_endpoint(body, Raises)) :
            Serve("completions", body, oc, completions_endpoint(body, oc))

----------------------------------------------------------------------------
(* POST /v1/chat/completions: lines 209-270 *)

ChatMessage(role, content) == [role |-> role, content |-> content]
FunctionSpec(name) == [name |-> name, description |-> None, parameters |-> << >>]

\* messages: List[ChatMessage] is a required field
messages_valid(body) == body.messages.kind = "list"

\* The ChatCompletionRequest built from a body that passed validation.
ChatCompletionRequest(body) == [body EXCEPT !.messages = body.messages.val]

RECURSIVE contents_of_all(_)
\* faulty variant: the role of a message is not looked at
contents_of_all(messages) ==
    IF Len(messages) = 0 THEN << >>
    ELSE <<Head(messages).content>> \o contents_of_all(Tail(messages))

RECURSIVE user_msgs(_)
\* [m.content for m in req.messages if m.role == "user"]
user_msgs(messages) ==
    IF Len(messages) = 0 THEN << >>
    ELSE (IF Head(messages).role = "user" THEN <<Head(messages).content>> ELSE << >>)
         \o user_msgs(Tail(messages))

\* faulty variant: the stub needs a second function
functions_more_than_one(req) == ~IsNone(req.functions) /\ Len(Val(req.functions)) > 1

\* the truth value of req.functions: not None and not the empty list
functions_specified(req) == ~IsNone(req.functions) /\ Len(Val(req.functions)) > 0

\* The function_call stub of lines 221-233 for a string prompt.
function_call_stub(req, prompt) ==
    [object  |-> "chat.completion",
     model   |-> model_name(req),
     choices |-> << [index         |-> 0,
                     message       |-> ChatMessage("assistant", Some(<< >>)),
                     finish_reason |-> "function_call",
                     function_call |-> [name      |-> Val(req.functions)[1].name,
                                        arguments |-> "{}"]] >>,
     usage   |-> [prompt_tokens     |-> Len(tokenizer(prompt)),
                  completion_tokens |-> 0,
                  total_tokens      |-> Len(tokenizer(prompt))]]

\* for i, out in enumerate(outputs): choices.append(ChatChoice(...))
chat_choices(prompt, outputs) ==
    [i \in 1..Len(outputs) |->
        [index         |-> i - 1,
         message       |-> ChatMessage("assistant",
                                       Some(Slice(outputs[i].generated_text, Len(prompt)))),
         finish_reason |-> "stop"]]

\* The handler, given what the pipeline does if it is called. The prompt is
\* the content of the last user message, an Optional[str]: the tokenizer and
\* the pipeline raise on None.
chat_completions(req, oc) ==
    LET msgs == user_msgs(req.messages) IN
    IF Len(msgs) = 0 THEN Raise(HTTPException(400, "No user messages provided"), << >>)
    ELSE LET prompt == msgs[Len(msgs)] IN
         IF functions_specified(req)
         THEN IF IsNone(prompt)
              THEN Raise(PyException("tokenizer: text input must be of type str"), << >>)
              ELSE Return(function_call_stub(req, Val(prompt)), << >>)
         ELSE IF IsNone(req.temperature)
              THEN Raise(HTTPException(500, "Chat generation failed"), << >>)
              ELSE LET call == generation_call(prompt, req) IN
                   IF oc.raised
                   THEN Raise(HTTPException(500, "Chat generation failed"), <<call>>)
                   ELSE Return([object  |-> "chat.completion",
                                model   |-> model_name(req),
                                choices |-> chat_choices(Val(prompt), oc.outputs),
                                usage   |-> count_usage(Val(prompt), oc.outputs)],
                               <<call>>)

\* Request parsing, then the handler.
chat_endpoint(body, oc) ==
    IF ~messages_valid(body)
    THEN Raise(RequestValidationError("messages: field required"), << >>)
    ELSE chat_completions(ChatCompletionRequest(body), oc)

U(content) == ChatMessage("user", content)

MessageBodies ==
    { JAbsent,
      JList(<< >>),
      JList(<< ChatMessage("system", Some(<<"p">>)) >>),
      JList(<< ChatMessage("assistant", Some(<<"p">>)), ChatMessage("system", None) >>),
      JList(<< U(Some(<<"p">>)) >>),
      JList(<< U(Some(<< >>)) >>),
      JList(<< U(None) >>),
      JList(<< ChatMessage("system", Some(<<"p">>)), U(Some(<<"p", "p">>)),
               ChatMessage("assistant", None) >>),
      JList(<< U(None), U(Some(<<"p">>)) >>) }

FunctionLists ==
    { None, Some(<< >>), Some(<< FunctionSpec("f") >>),
      Some(<< FunctionSpec("g"), FunctionSpec("f") >>) }

ChatBodies ==
    [model : ModelNames, messages : MessageBodies, functions : FunctionLists,
     max_tokens : OptInts \cup {Some(16)}, max_new_tokens : OptInts,
     temperature : Temperatures, top_p : TopPs, n : Ns, stream : BOOLEAN]

PostChatCompletions ==
    /\ Idle
    /\ \E body \in ChatBodies :
         \E oc \in Outcomes(chat_endpoint(body, Raises)) :
            Serve("chat", body, oc, chat_endpoint(body, oc))

----------------------------------------------------------------------------
(* POST /v1/tools/{tool_name}: lines 273-285 *)

JNum(k) == [kind |-> "num", val |-> k]
JObject(pairs) == [kind |-> "object", val |-> pairs]

\* faulty variant: args is declared Any
args_valid_any(body) == TRUE

\* args: Dict[str, Any] -- the body must be a JSON object
args_valid(body) == body.kind = "object"

\* result = {"tool_name": tool_name, "output": f"Executed ... with args ..."};
\* nothing in the try block can raise
call_tool(tool_name, args) ==
    Return([object    |-> "tool",
            tool_name |-> tool_name,
            output    |-> <<"Executed ", tool_name, " with args ", args>>],
           << >>)

\* Request parsing, then the handler.
tools_endpoint(tool_name, body) ==
    IF ~args_valid(body)
    THEN Raise(RequestValidationError("args: not a valid dict"), << >>)
    ELSE call_tool(tool_name, body.val)

ToolNames == {"anything", "search"}

ToolBodies ==
    { JObject(<< >>), JObject(<< <<"q", "x">> >>), JObject(<< <<"a", "1">>, <<"b", "2">> >>),
      JList(<< >>), JList(<< "x" >>), JStr(<<"p">>), JNum(7), JNull, JAbsent }

PostTool ==
    /\ Idle
    /\ \E tool_name \in ToolNames, body \in ToolBodies :
         /\ request' = [endpoint |-> "tools", body |-> body, tool_name |-> tool_name]
         /\ outcome' = NoOutcome
         /\ pipeline_calls' = tools_endpoint(tool_name, body).calls
         /\ raised' = tools_endpoint(tool_name, body).exc.class
         /\ response' = Respond(tools_endpoint(tool_name, body))
         /\ UNCHANGED <<startup, handles>>

Next == LoadModel \/ Health \/ PostCompletions \/ PostChatCompletions \/ PostTool \/ Sent

----------------------------------------------------------------------------
(* What the claims speak about *)

Body == request.body
OnCompletions == request.endpoint = "completions"
OnChat == request.endpoint = "chat"
OnTools == request.endpoint = "tools"
IsError == response.content.object = "error"
Success == response.status = 200
Envelope == response.content.error
Usage == response.content.usage
Choices == response.content.choices

\* /v1/completions with a prompt that is absent, null or the empty list
EmptyPrompt ==
    /\ OnCompletions
    /\ \/ Body.prompt.kind \in {"absent", "null"}
       \/ Body.prompt.kind = "list" /\ Len(Body.prompt.val) = 0

\* /v1/completions with a prompt list whose first element exists
HasPrompt == OnCompletions /\ Body.prompt.kind = "list" /\ Len(Body.prompt.val) > 0

\* /v1/completions with a prompt list whose first element is ""
BlankFirstPrompt == HasPrompt /\ Len(Body.prompt.val[1]) = 0

\* /v1/chat/completions with a parsed message list
ChatParsed == OnChat /\ Body.messages.kind = "list"
UserIndexes == { i \in 1..Len(Body.messages.val) : Body.messages.val[i].role = "user" }
NoUserMessage == ChatParsed /\ UserIndexes = {}
HasUserMessage == ChatParsed /\ UserIndexes # {}
LastUserContent ==
    Body.messages.val[CHOOSE i \in UserIndexes : \A j \in UserIndexes : j <= i].content

FunctionsSupplied == ~IsNone(Body.functions)
FunctionsNonEmpty == ~IsNone(Body.functions) /\ Len(Val(Body.functions)) > 0

\* the response is the function_call stub
IsStub ==
    /\ Success
    /\ response.content.object = "chat.completion"
    /\ Len(Choices) = 1
    /\ Choices[1].finish_reason = "function_call"

----------------------------------------------------------------------------
(* C1: every success response of /v1/completions and of /v1/chat/completions
   (generation path and function-call stub) reports
   usage.total_tokens = usage.prompt_tokens + usage.completion_tokens,
   whatever n is. *)
C1_UsageTotal ==
    (Success /\ (OnCompletions \/ OnChat))
        => Usage.total_tokens = Usage.prompt_tokens + Usage.completion_tokens

C1_Witness ==
    /\ OnCompletions /\ Success
    /\ Body.n = 2
    /\ Usage.prompt_tokens >= 1
    /\ Usage.completion_tokens >= 2

(* C2 as stated: a successful /v1/completions response contains exactly one
   choice, for every accepted n. *)
C2_ExactlyOneChoice == (OnCompletions /\ Success) => Len(Choices) = 1

(* C2 amended: a successful /v1/completions response contains one choice per
   output sequence the pipeline returned, numbered 0, 1, ... in order, which
   is n choices; it is exactly one choice when n = 1. *)
C2_ChoicePerOutput ==
    (OnCompletions /\ Success) =>
        /\ Len(Choices) = Len(outcome.outputs)
        /\ Len(Choices) = Body.n
        /\ \A i \in 1..Len(Choices) :
              /\ Choices[i].index = i - 1
              /\ Body.prompt.val[1] \o Choices[i].text = outcome.outputs[i].generated_text
        /\ (Body.n = 1 => Len(Choices) = 1)

C2_Witness == OnCompletions /\ Success /\ Body.n = 2 /\ Len(Choices) = 2

(* C3: /v1/completions with an empty prompt list, or no prompt, is answered
   with HTTP 400 and an error envelope of type invalid_request_error, and
   the pipeline is not invoked for it. *)
C3_EmptyPrompt400 ==
    EmptyPrompt =>
        /\ response.status = 400
        /\ IsError
        /\ Envelope.type = "invalid_request_error"
        /\ pipeline_calls = << >>

C3_Witness ==
    /\ OnCompletions
    /\ Body.prompt.kind = "list" /\ Len(Body.prompt.val) = 0
    /\ response.status = 400
    /\ ~IsNone(Body.temperature)

(* C4 as stated: /v1/completions with a prompt list whose first element is
   the empty string is rejected with HTTP 400 and does not reach the
   pipeline. *)
C4_BlankPromptRejected ==
    BlankFirstPrompt => (response.status = 400 /\ pipeline_calls = << >>)

(* C4 amended: /v1/completions requires a non-empty prompt list, it answers
   400 exactly when the list is missing or empty. A list whose first element
   is the empty string is not rejected: the handler goes on to the generation
   call, the pipeline is invoked once with the prompt "" (unless temperature
   is null, which fails the call's arguments), and the answer is 200 or 500. *)
C4_BlankPromptGenerates ==
    /\ (OnCompletions /\ Body.prompt.kind # "str") => (response.status = 400 <=> EmptyPrompt)
    /\ BlankFirstPrompt =>
          /\ response.status \in {200, 500}
          /\ ~IsNone(Body.temperature) =>
                (Len(pipeline_calls) = 1 /\ pipeline_calls[1].prompt = Some(<< >>))
          /\ IsNone(Body.temperature) => (pipeline_calls = << >> /\ response.status = 500)

C4_Witness == BlankFirstPrompt /\ Success /\ Len(pipeline_calls) = 1

(* C5: /v1/chat/completions whose messages hold no message of role user is
   answered with HTTP 400, with or without functions; neither the stub
   response nor a generation call is produced. *)
C5_NoUserMessage400 ==
    NoUserMessage =>
        /\ response.status = 400
        /\ IsError
        /\ ~IsStub
        /\ pipeline_calls = << >>

C5_Witness ==
    /\ NoUserMessage
    /\ Len(Body.messages.val) > 0
    /\ FunctionsNonEmpty
    /\ response.status = 400

(* C6 as stated: /v1/chat/completions with functions supplied, an empty list
   included, and any content of the last user message, returns a single
   choice with finish_reason "function_call" and never invokes the
   pipeline. *)
C6_FunctionsSuppliedStub ==
    (HasUserMessage /\ FunctionsSupplied) => (IsStub /\ pipeline_calls = << >>)

(* C6 amended: with a non-empty functions list and a user message the
   pipeline is never invoked; the response is the stub (one choice,
   finish_reason "function_call", the name of functions[0]) when the content
   of the last user message is a string, and a 500 when that content is null.
   An empty functions list counts as no functions: the request takes the
   generation path. *)
C6_NonEmptyFunctionsStub ==
    /\ (HasUserMessage /\ FunctionsNonEmpty) =>
          /\ pipeline_calls = << >>
          /\ ~IsNone(LastUserContent) =>
                (IsStub /\ Choices[1].function_call.name = Val(Body.functions)[1].name)
          /\ IsNone(LastUserContent) => (response.status = 500 /\ raised = "Exception")
    /\ (HasUserMessage /\ ~FunctionsNonEmpty) =>
          /\ ~IsStub
          /\ ~IsNone(Body.temperature) => Len(pipeline_calls) = 1

C6_Witness ==
    /\ HasUserMessage /\ FunctionsNonEmpty
    /\ Len(LastUserContent) = 1 /\ Len(Val(LastUserContent)) > 0
    /\ IsStub

(* C7: every failed request is in one of three classes with a fixed envelope
   each: 400 for a missing prompt or user message, 422 for a body that fails
   parsing, 500 for everything else; a generation failure and an unhandled
   exception give the same 500 envelope (type, param, code). *)
C7_ThreeFixedEnvelopes ==
    IsError =>
        /\ response.status \in {400, 422, 500}
        /\ response.status = 400 =>
              (raised = "HTTPException" /\ Envelope.type = "invalid_request_error")
        /\ response.status = 422 =>
              (raised = "RequestValidationError" /\ Envelope.type = "validation_error")
        /\ response.status = 500 =>
              /\ Envelope.type = generic_exception_handler(NoExc).content.error.type
              /\ Envelope.param = generic_exception_handler(NoExc).content.error.param
              /\ Envelope.code = generic_exception_handler(NoExc).content.error.code

(* C8 as stated: /v1/tools/{tool_name} with any JSON value as body returns
   200 with the echo of tool_name and args, and never invokes the pipeline. *)
C8_AnyBody200 ==
    OnTools =>
        /\ Success
        /\ response.content.tool_name = request.tool_name
        /\ response.content.output =
              <<"Executed ", request.tool_name, " with args ", Body.val>>
        /\ pipeline_calls = << >>

(* C8 amended: /v1/tools/{tool_name} with a JSON object as body returns 200
   with {tool_name, "Executed {tool_name} with args {args}"}; any other body
   (array, string, number, null, none) is answered 422 with the
   validation_error envelope; the pipeline is invoked in neither case. *)
C8_ObjectBody200 ==
    OnTools =>
        /\ pipeline_calls = << >>
        /\ Body.kind = "object" =>
              /\ Success
              /\ response.content.tool_name = request.tool_name
              /\ response.content.output =
                    <<"Executed ", request.tool_name, " with args ", Body.val>>
        /\ Body.kind # "object" =>
              /\ response.status = 422
              /\ Envelope.type = "validation_error"

C8_Witness == OnTools /\ Body.kind = "object" /\ Len(Body.val) = 2 /\ Success

(* C9: a failure to load tokenizer, model or pipeline aborts the start and no
   request is ever served; every request is served with all three loaded; no
   handler changes them afterwards. *)
C9_LoadFailureFatal ==
    /\ [](request.endpoint # "none" =>
            (startup = "serving" /\ handles = load_globals("none")))
    /\ [](startup = "serving" => handles = load_globals("none"))
    /\ [](startup = "aborted" => (handles # load_globals("none") /\ request = NoRequest))
    /\ [][startup # "importing" => (startup' = startup /\ handles' = handles)]_vars

C9_Witness ==
    /\ startup = "aborted"
    /\ handles.tokenizer = "loaded"
    /\ handles.model = "unset"

\* the request with the stream flag inverted
FlipStream == [Body EXCEPT !.stream = ~Body.stream]
RunOf(body) ==
    IF OnCompletions THEN completions_endpoint(body, outcome) ELSE chat_endpoint(body, outcome)

(* C10: in both generation endpoints the call gets max_new_tokens of the
   request when that is not null (0 included), else max_tokens; temperature,
   top_p and n (as num_return_sequences) go through unchanged; stream changes
   neither the call nor the response. *)
C10_CallParameters ==
    (OnCompletions \/ OnChat) =>
        /\ Len(pipeline_calls) <= 1
        /\ \A i \in 1..Len(pipeline_calls) :
              /\ pipeline_calls[i].max_new_tokens =
                    (IF Len(Body.max_new_tokens) = 1 THEN Body.max_new_tokens
                     ELSE Body.max_tokens)
              /\ pipeline_calls[i].temperature = Body.temperature
              /\ pipeline_calls[i].top_p = Body.top_p
              /\ pipeline_calls[i].num_return_sequences = Body.n
        /\ RunOf(FlipStream).calls = pipeline_calls
        /\ Respond(RunOf(FlipStream)) = response

C10_Witness ==
    /\ OnChat /\ Success
    /\ Len(pipeline_calls) = 1
    /\ Body.max_new_tokens = Some(0)
    /\ Body.max_tokens = Some(1)
    /\ Body.stream
    /\ pipeline_calls[1].max_new_tokens = Some(0)

Spec == Init /\ [][Next]_vars
====
